---- MODULE Spec2Model ----
(***************************************************************************)
(* Model of datacenter_cooling.c: counting the Hamiltonian paths of a grid *)
(* from the intake (2) to the air conditioner (3) by a backtracking DFS    *)
(* that is cut short by the "no room of degree < 2" heuristic.             *)
(*                                                                         *)
(* The recursion of count_paths/go_into_room is modelled with an explicit  *)
(* call stack: one frame per active call of count_paths, holding its       *)
(* arguments (crt, length), its local number_of_paths (n) and its position *)
(* in the function body (at).                                              *)
(***************************************************************************)
EXTENDS Integers, Sequences, FiniteSets, TLC

\* Bounds of the explored inputs: grids of at most MaxCells rooms with any
\* blocking, larger grids of at most MaxBigCells rooms with at most MaxBlocked
\* blocked rooms, and (for SpecAny) arbitrary grids of at most MaxAnyCells.
MaxWidth == 4
MaxHeight == 4
MaxCells == 9
MaxBigCells == 12
MaxBlocked == 2
MaxAnyCells == 4

VARIABLES
    width,        \* int width
    height,       \* int height
    cells,        \* the width*height tokens on stdin after the dimensions
    pc,           \* position of main: "read", "search", "done"
    i,            \* main's loop index
    visited,      \* char *visited
    start,        \* int start
    end,          \* int end
    path_length,  \* int path_length
    stack,        \* active calls of count_paths, outermost first
    counts        \* values count_paths(start, 1) has returned to its caller

vars == <<width, height, cells, pc, i, visited, start, end, path_length,
          stack, counts>>

Size == width * height
Rooms == 0 .. (Size - 1)

(***************************************************************************)
(* Grid arithmetic (the macros).  C's / on non-negative ints is \div.      *)
(***************************************************************************)
SAME_ROW_Always(a, b) == TRUE
SAME_ROW(a, b) == (a \div width) = (b \div width)

UP(pos) == pos - width
DOWN(pos) == pos + width
RIGHT(pos) == pos + 1
LEFT(pos) == pos - 1

CAN_GO_UP(pos) == UP(pos) >= 0
CAN_GO_DOWN(pos) == DOWN(pos) < width * height
CAN_GO_RIGHT_NoRow(pos) == RIGHT(pos) < width * height
CAN_GO_RIGHT(pos) == RIGHT(pos) < width * height /\ SAME_ROW(pos, RIGHT(pos))
CAN_GO_LEFT(pos) == LEFT(pos) >= 0 /\ SAME_ROW(pos, LEFT(pos))

IS_FREE(pos, vector) == vector[pos] = 0

(***************************************************************************)
(* path_has_rooms_with_degree_lt_2: the scan of every room i, returning 1  *)
(* at the first unvisited room other than end whose degree is below 2.     *)
(***************************************************************************)
B2I(b) == IF b THEN 1 ELSE 0

RoomDegree_NoCrt(r, crt) ==
    B2I(CAN_GO_UP(r) /\ IS_FREE(UP(r), visited))
  + B2I(CAN_GO_RIGHT(r) /\ IS_FREE(RIGHT(r), visited))
  + B2I(CAN_GO_DOWN(r) /\ IS_FREE(DOWN(r), visited))
  + B2I(CAN_GO_LEFT(r) /\ IS_FREE(LEFT(r), visited))

RoomDegree(r, crt) ==
    B2I(CAN_GO_UP(r) /\ (IS_FREE(UP(r), visited) \/ UP(r) = crt))
  + B2I(CAN_GO_RIGHT(r) /\ (IS_FREE(RIGHT(r), visited) \/ RIGHT(r) = crt))
  + B2I(CAN_GO_DOWN(r) /\ (IS_FREE(DOWN(r), visited) \/ DOWN(r) = crt))
  + B2I(CAN_GO_LEFT(r) /\ (IS_FREE(LEFT(r), visited) \/ LEFT(r) = crt))

ScannedRoom_WithEnd(r) == IS_FREE(r, visited)
ScannedRoom(r) == IS_FREE(r, visited) /\ r # end

RECURSIVE ScanFrom(_, _)
ScanFrom(r, crt) ==
    IF r >= width * height THEN 0
    ELSE IF ScannedRoom(r) /\ RoomDegree(r, crt) < 2 THEN 1
    ELSE ScanFrom(r + 1, crt)

path_has_rooms_with_degree_lt_2(crt) == ScanFrom(0, crt)

(***************************************************************************)
(* main: the loop that reads the rooms.                                     *)
(***************************************************************************)
ReadRoom ==
    /\ pc = "read"
    /\ i < width * height
    /\ LET crt == cells[i] IN
        /\ visited' = IF crt = 1 \/ crt = 2
                      THEN [visited EXCEPT ![i] = 1]
                      ELSE visited
        /\ start' = IF crt = 2 THEN i ELSE start
        /\ end' = IF crt = 3 THEN i ELSE end
        /\ path_length' = IF crt # 1 THEN path_length + 1 ELSE path_length
    /\ i' = i + 1
    /\ UNCHANGED <<width, height, cells, pc, stack, counts>>

Frame(crt, length) == [crt |-> crt, length |-> length, at |-> "check", n |-> 0]

\* main: the call count_paths(start, 1) once the loop is over.
CallSearch ==
    /\ pc = "read"
    /\ ~(i < width * height)
    /\ stack' = <<Frame(start, 1)>>
    /\ pc' = "search"
    /\ UNCHANGED <<width, height, cells, i, visited, start, end, path_length,
                   counts>>

(***************************************************************************)
(* count_paths                                                              *)
(***************************************************************************)
Top == stack[Len(stack)]
SetTop(f) == [stack EXCEPT ![Len(stack)] = f]

FoundPath(crt, length) == crt = end /\ length = path_length

\* The two early returns of count_paths.
Check ==
    /\ pc = "search"
    /\ Top.at = "check"
    /\ stack' = IF FoundPath(Top.crt, Top.length)
                THEN SetTop([Top EXCEPT !.at = "ret", !.n = 1])
                ELSE IF path_has_rooms_with_degree_lt_2(Top.crt) # 0
                THEN SetTop([Top EXCEPT !.at = "ret", !.n = 0])
                ELSE SetTop([Top EXCEPT !.at = "up", !.n = 0])
    /\ UNCHANGED <<width, height, cells, pc, i, visited, start, end,
                   path_length, counts>>

\* go_into_room up to and including its call of count_paths.
Mark(vector, new_room) == [vector EXCEPT ![new_room] = 1]

\* go_into_room after the call has returned.
Unmark_Nothing(vector, new_room) == vector
Unmark(vector, new_room) == [vector EXCEPT ![new_room] = 0]

Try_SameLength(at, can, room, next) ==
    /\ pc = "search"
    /\ Top.at = at
    /\ IF can /\ IS_FREE(room, visited)
       THEN /\ visited' = Mark(visited, room)
            /\ stack' = Append(SetTop([Top EXCEPT !.at = next]),
                               Frame(room, Top.length))
       ELSE /\ visited' = visited
            /\ stack' = SetTop([Top EXCEPT !.at = next])
    /\ UNCHANGED <<width, height, cells, pc, i, start, end, path_length,
                   counts>>

\* One of the four "if (CAN_GO_x(crt) && IS_FREE(x(crt), visited))".
Try(at, can, room, next) ==
    /\ pc = "search"
    /\ Top.at = at
    /\ IF can /\ IS_FREE(room, visited)
       THEN /\ visited' = Mark(visited, room)
            /\ stack' = Append(SetTop([Top EXCEPT !.at = next]),
                               Frame(room, Top.length + 1))
       ELSE /\ visited' = visited
            /\ stack' = SetTop([Top EXCEPT !.at = next])
    /\ UNCHANGED <<width, height, cells, pc, i, start, end, path_length,
                   counts>>

TryUp == Try("up", CAN_GO_UP(Top.crt), UP(Top.crt), "right")
TryRight == Try("right", CAN_GO_RIGHT(Top.crt), RIGHT(Top.crt), "down")
TryDown == Try("down", CAN_GO_DOWN(Top.crt), DOWN(Top.crt), "left")
TryLeft == Try("left", CAN_GO_LEFT(Top.crt), LEFT(Top.crt), "ret")

\* A nested count_paths returns into go_into_room, which unmarks the room and
\* returns the same number; the caller adds it to its number_of_paths.
ReturnToRoom ==
    /\ pc = "search"
    /\ Top.at = "ret"
    /\ Len(stack) > 1
    /\ visited' = Unmark(visited, Top.crt)
    /\ LET caller == stack[Len(stack) - 1]
           rest == SubSeq(stack, 1, Len(stack) - 1)
       IN stack' = [rest EXCEPT ![Len(rest)] =
                        [caller EXCEPT !.n = caller.n + Top.n]]
    /\ UNCHANGED <<width, height, cells, pc, i, start, end, path_length,
                   counts>>

\* The outermost count_paths returns to main, which prints the number.
ReturnToMain ==
    /\ pc = "search"
    /\ Top.at = "ret"
    /\ Len(stack) = 1
    /\ counts' = Append(counts, Top.n)
    /\ stack' = <<>>
    /\ pc' = "done"
    /\ UNCHANGED <<width, height, cells, i, visited, start, end, path_length>>

Next ==
    \/ ReadRoom
    \/ CallSearch
    \/ Check
    \/ TryUp
    \/ TryRight
    \/ TryDown
    \/ TryLeft
    \/ ReturnToRoom
    \/ ReturnToMain

(***************************************************************************)
(* Inputs.                                                                 *)
(***************************************************************************)
Count(f, v) == Cardinality({k \in DOMAIN f : f[k] = v})

ValidGrid(g) ==
    /\ \A k \in DOMAIN g : g[k] \in 0 .. 3
    /\ Count(g, 2) = 1
    /\ Count(g, 3) = 1

\* The state after the globals are zero-initialised, the dimensions are read
\* and visited is calloc'ed.
InitWith(w, h, g) ==
    /\ width = w
    /\ height = h
    /\ cells = g
    /\ pc = "read"
    /\ i = 0
    /\ visited = [k \in 0 .. (w * h - 1) |-> 0]
    /\ start = 0
    /\ end = 0
    /\ path_length = 0
    /\ stack = <<>>
    /\ counts = <<>>

\* A grid with one Start at s, one End at e and the rooms of B blocked.
GridOf(n, s, e, B) ==
    [k \in 0 .. (n - 1) |->
        IF k = s THEN 2 ELSE IF k = e THEN 3 ELSE IF k \in B THEN 1 ELSE 0]

\* Every valid grid within the bounds.
Init ==
    \E w \in 1 .. MaxWidth, h \in 1 .. MaxHeight :
        /\ w * h <= (IF MaxCells > MaxBigCells THEN MaxCells ELSE MaxBigCells)
        /\ \E s \in 0 .. (w * h - 1), e \in 0 .. (w * h - 1) :
            /\ s # e
            /\ \E B \in SUBSET ((0 .. (w * h - 1)) \ {s, e}) :
                /\ (w * h > MaxCells) => (Cardinality(B) <= MaxBlocked)
                /\ InitWith(w, h, GridOf(w * h, s, e, B))

Spec == Init /\ [][Next]_vars

\* The search is a sequential program: it keeps running until main returns.
FairSpec == Spec /\ WF_vars(Next)

\* Every grid within the (smaller) bounds, valid or not; 4 stands for any
\* token that is none of 0, 1, 2, 3.
InitAny ==
    \E w \in 1 .. MaxAnyCells, h \in 1 .. MaxAnyCells :
        /\ w * h <= MaxAnyCells
        /\ \E g \in [0 .. (w * h - 1) -> 0 .. 4] : InitWith(w, h, g)

SpecAny == InitAny /\ [][Next]_vars

\* A caller that calls count_paths(start, 1) a second time, without
\* re-initialising anything.
Rerun ==
    /\ pc = "done"
    /\ Len(counts) = 1
    /\ stack' = <<Frame(start, 1)>>
    /\ pc' = "search"
    /\ UNCHANGED <<width, height, cells, i, visited, start, end, path_length,
                   counts>>

NextRerun ==
    \/ Next
    \/ Rerun

SpecRerun == Init /\ [][NextRerun]_vars

(***************************************************************************)
(* Reference notions, stated on the grid as it was given (rows and         *)
(* columns), independently of the program's index arithmetic.              *)
(***************************************************************************)
Row(k) == k \div width
Col(k) == k % width
Abs(x) == IF x < 0 THEN -x ELSE x
Adjacent(a, b) == Abs(Row(a) - Row(b)) + Abs(Col(a) - Col(b)) = 1

Blocked == {k \in Rooms : cells[k] = 1}
FreeRooms == Rooms \ Blocked
StartRoom == CHOOSE k \in Rooms : cells[k] = 2
EndRoom == CHOOSE k \in Rooms : cells[k] = 3

Range(p) == {p[j] : j \in 1 .. Len(p)}

\* The simple paths of n rooms that leave Start and never enter a blocked room.
RECURSIVE SimplePaths(_)
SimplePaths(n) ==
    IF n = 1 THEN {<<StartRoom>>}
    ELSE {Append(p, c) : <<p, c>> \in
            {q \in SimplePaths(n - 1) \X FreeRooms :
                /\ Adjacent(q[1][Len(q[1])], q[2])
                /\ q[2] \notin Range(q[1])}}

HamiltonianPaths ==
    {p \in SimplePaths(Cardinality(FreeRooms)) : p[Len(p)] = EndRoom}

\* The rooms of the calls on the stack, outermost first: the current path.
PathOnStack == [j \in 1 .. Len(stack) |-> stack[j].crt]
Marked == {k \in Rooms : visited[k] # 0}

\* The visited vector main hands to the search: Start and the blocked rooms.
VisitedAtCall == [k \in Rooms |-> IF cells[k] = 1 \/ cells[k] = 2 THEN 1 ELSE 0]

Searched == pc = "done" /\ Len(counts) >= 1

\* C1: on every valid grid the returned count is the number of Hamiltonian
\* paths of the grid (Start to End, every non-blocked room exactly once, no
\* blocked room, consecutive rooms horizontally or vertically adjacent).
C1_CountIsHamiltonian ==
    Searched => counts[1] = Cardinality(HamiltonianPaths)

C1_Witness == Searched /\ counts[1] >= 2 /\ Blocked # {}

\* The same depth-first search with the degree gate removed.
RECURSIVE PlainDFS(_, _, _)
PlainDFS(crt, length, vis) ==
    IF crt = end /\ length = path_length THEN 1
    ELSE
        (IF CAN_GO_UP(crt) /\ IS_FREE(UP(crt), vis)
         THEN PlainDFS(UP(crt), length + 1, [vis EXCEPT ![UP(crt)] = 1])
         ELSE 0)
      + (IF CAN_GO_RIGHT(crt) /\ IS_FREE(RIGHT(crt), vis)
         THEN PlainDFS(RIGHT(crt), length + 1, [vis EXCEPT ![RIGHT(crt)] = 1])
         ELSE 0)
      + (IF CAN_GO_DOWN(crt) /\ IS_FREE(DOWN(crt), vis)
         THEN PlainDFS(DOWN(crt), length + 1, [vis EXCEPT ![DOWN(crt)] = 1])
         ELSE 0)
      + (IF CAN_GO_LEFT(crt) /\ IS_FREE(LEFT(crt), vis)
         THEN PlainDFS(LEFT(crt), length + 1, [vis EXCEPT ![LEFT(crt)] = 1])
         ELSE 0)

\* C2: the degree gate never changes the result: the pruned search returns
\* what the plain unpruned DFS returns from the same start.
C2_PruningPreservesCount ==
    Searched => counts[1] = PlainDFS(start, 1, VisitedAtCall)

\* A search in which the gate did cut a branch and paths were still found.
C2_Witness ==
    /\ pc = "search"
    /\ Len(stack) > 1
    /\ Top.at = "check"
    /\ ~FoundPath(Top.crt, Top.length)
    /\ path_has_rooms_with_degree_lt_2(Top.crt) = 1
    /\ stack[1].n >= 1

IsScenarioGrid ==
    /\ width = 3
    /\ height = 2
    /\ cells = [k \in 0 .. 5 |-> <<2, 0, 0, 0, 3, 1>>[k + 1]]

\* C3 as stated: the grid [2,0,0]/[0,3,1] yields exactly 2.
C3_ScenarioYieldsTwo ==
    (IsScenarioGrid /\ Searched) => counts[1] = 2

\* C3 as amended: the grid [2,0,0]/[0,3,1] yields exactly 0 (the room in the
\* top right corner has a single free neighbour).
C3_ScenarioYieldsZero ==
    (IsScenarioGrid /\ Searched) => counts[1] = 0

C3_Witness == IsScenarioGrid /\ Searched /\ counts = <<0>>

OnlyStartAndEnd ==
    /\ FreeRooms = {StartRoom, EndRoom}
    /\ Adjacent(StartRoom, EndRoom)

\* C4: Start and End adjacent and every other room blocked: the search
\* returns exactly 1.
C4_AdjacentPairYieldsOne ==
    (OnlyStartAndEnd /\ Searched) => counts[1] = 1

C4_Witness == OnlyStartAndEnd /\ Searched /\ Size >= 4 /\ counts[1] = 1

\* C5: an invalid grid is rejected during construction: count_paths is never
\* invoked on it and no count is produced.
C5_InvalidGridRejected ==
    ~ValidGrid(cells) => (pc = "read" /\ stack = <<>> /\ counts = <<>>)

C6_Depth ==
    /\ Len(stack) <= Size
    /\ \A j \in 1 .. Len(stack) :
        /\ stack[j].length = j
        /\ stack[j].n >= 0
    /\ \A j \in 1 .. Len(counts) : counts[j] >= 0

\* C6: the search terminates with a non-negative count; each nested call has
\* a length one greater than its caller's (the outermost has 1) and the
\* recursion is never deeper than the number of rooms of the grid.
C6_Terminates == [](C6_Depth) /\ <>(pc = "done")

\* The recursion as deep as the grid has rooms.
C6_Witness == Len(stack) = Size /\ Size >= 6

\* C7: when count_paths(start, 1) returns, visited is what it was before the
\* call (Start and the blocked rooms marked), and a second call without
\* re-initialisation returns the same number.
C7_RerunSameCount ==
    /\ pc = "done" => visited = VisitedAtCall
    /\ Len(counts) = 2 => counts[1] = counts[2]

C7_Witness == Len(counts) = 2 /\ counts[1] >= 1 /\ counts[2] >= 1

C8_VisitedIsPath ==
    pc = "search" =>
        /\ Marked = Blocked \cup Range(PathOnStack)
        /\ PathOnStack[1] = StartRoom
        /\ \A j \in 1 .. (Len(stack) - 1) :
            Adjacent(PathOnStack[j], PathOnStack[j + 1])
        /\ Cardinality(Range(PathOnStack)) = Len(stack)
        /\ Range(PathOnStack) \cap Blocked = {}

C8_Restore ==
    (pc = "search" /\ Len(stack) > 1 /\ Len(stack') < Len(stack)) =>
        /\ visited[Top.crt] # 0
        /\ visited'[Top.crt] = 0
        /\ \A k \in Rooms \ {Top.crt} : visited'[k] = visited[k]
        /\ {k \in Rooms : visited'[k] # 0} =
                Blocked \cup {stack'[j].crt : j \in 1 .. Len(stack')}

\* C8: during the recursion the marked rooms are exactly the blocked rooms
\* and the rooms of the current path from Start to crt; when go_into_room
\* returns, the room it marked is unmarked and no other mark has changed.
C8_VisitedDiscipline == [](C8_VisitedIsPath) /\ [][C8_Restore]_vars

\* A return into a room that still has a sibling direction to try.
C8_Witness ==
    /\ pc = "search"
    /\ Len(stack) >= 3
    /\ Top.at = "ret"
    /\ stack[Len(stack) - 1].at \in {"right", "down", "left"}

\* The available degree of room r as the claim words it.
AvailableDegree(r, crt) ==
    Cardinality({k \in Rooms : Adjacent(r, k) /\ (visited[k] = 0 \/ k = crt)})

DeadEndExists(crt) ==
    \E r \in Rooms :
        /\ visited[r] = 0
        /\ r # EndRoom
        /\ AvailableDegree(r, crt) < 2

GateReached ==
    pc = "search" /\ Top.at = "check" /\ ~FoundPath(Top.crt, Top.length)

C9_GateIsDeadEnd ==
    GateReached =>
        (path_has_rooms_with_degree_lt_2(Top.crt) = 1 <=> DeadEndExists(Top.crt))

C9_PruneReturnsZero ==
    (GateReached /\ DeadEndExists(Top.crt)) =>
        /\ Len(stack') = Len(stack)
        /\ stack'[Len(stack')].at = "ret"
        /\ stack'[Len(stack')].n = 0
        /\ visited' = visited

\* C9: the gate answers true exactly when some unvisited room other than End
\* has fewer than 2 neighbours that are unvisited or crt; count_paths then
\* returns 0 for that node without entering a neighbour.
C9_Gate == [](C9_GateIsDeadEnd) /\ [][C9_PruneReturnsZero]_vars

\* The gate cuts a node because of a room that is not End, deep in the
\* recursion, while End itself has a single available neighbour.
C9_Witness ==
    /\ GateReached
    /\ Len(stack) >= 3
    /\ DeadEndExists(Top.crt)
    /\ path_has_rooms_with_degree_lt_2(Top.crt) = 1
    /\ visited[EndRoom] = 0
    /\ AvailableDegree(EndRoom, Top.crt) < 2

\* C10: in every call, length is the number of non-blocked rooms marked
\* visited; when the terminal condition holds the path on the stack holds
\* every non-blocked room exactly once and no blocked room.
C10_LengthIsPathSize ==
    pc = "search" =>
        /\ Top.length = Cardinality(Marked \ Blocked)
        /\ \A j \in 1 .. Len(stack) : stack[j].length = j
        /\ (Top.at = "check" /\ FoundPath(Top.crt, Top.length)) =>
            /\ Range(PathOnStack) = FreeRooms
            /\ Len(stack) = Cardinality(FreeRooms)
            /\ Top.crt = EndRoom

C10_Witness ==
    /\ pc = "search"
    /\ Top.at = "check"
    /\ FoundPath(Top.crt, Top.length)
    /\ Top.length >= 5
    /\ Blocked # {}

====
